---- MODULE Spec2Model ----
(***************************************************************************)
(* Model of public/js/physicalweb-presentationmechanism.js: the Physical   *)
(* Web presentation mechanism (PhysicalWebRemoteController,                *)
(* PhysicalWebDisplay, PhysicalWebPresentationMechanism) together with the *)
(* browser objects it drives (XMLHttpRequest, Promise, window.location).   *)
(*                                                                         *)
(* Strings are sequences of one-character strings, so that                 *)
(* encodeURIComponent, String.indexOf and location.search are computed     *)
(* character by character.                                                 *)
(***************************************************************************)
EXTENDS Integers, Sequences, FiniteSets, TLC

VARIABLES
    location,              \* window.location: path, query and fragment of the page
    globalUrl,             \* what the free identifier `url` of terminate() resolves to
    onincomingcontroller,  \* that.onincomingcontroller: is a callback registered
    stubs,                 \* number of PhysicalWebRemoteController objects constructed
    monitorLog,            \* one record per monitorIncomingControllers() invocation
    displays,              \* PhysicalWebDisplay objects constructed, by their name
    available,             \* promises returned by getAvailableDisplays()
    xhrs,                  \* XMLHttpRequest objects, in creation order
    promises,              \* promises created by navigate() and createDataChannel()
    navs,                  \* one record per navigate() call
    terms,                 \* one record per terminate() call
    channels               \* one record per createDataChannel() call

vars == <<location, globalUrl, onincomingcontroller, stubs, monitorLog, displays,
          available, xhrs, promises, navs, terms, channels>>

rcvVars == <<location, onincomingcontroller, stubs, monitorLog>>
ctlVars == <<displays, available, navs, terms>>

----------------------------------------------------------------------------
(* Bounds *)

\* calls made to the methods of the mechanism, its displays and its controllers
MaxCalls == 3

----------------------------------------------------------------------------
(* Strings *)

\* the urls passed to navigate: plain, with a query string, with a fragment,
\* and one made of the characters form encoding treats specially
URLs ==
    { <<"a">>,
      <<"a", "?", "x", "=", "1">>,
      <<"a", "#", "f">>,
      <<"+", "%", "&", " ", "=">> }

\* the string literals of the source, spelled out
ActionStart == <<"a","c","t","i","o","n","=","s","t","a","r","t","&","u","r","l","=">>
ActionStop == <<"a","c","t","i","o","n","=","s","t","o","p","&","u","r","l","=">>
Marker == <<"?", "p">>
Endpoint == "http://localhost:3000/api/beacon"
FormContentType == "application/x-www-form-urlencoded"
DisplayName == "Broadcast the URL through a Physical Web beacon"
ErrorPrefix == "Unable to start Bluetooth beacon: "

\* characters encodeURIComponent leaves alone
UriUnescaped ==
    {"a","b","c","d","e","f","g","h","i","j","k","l","m","n","o","p","q","r","s",
     "t","u","v","w","x","y","z","0","1","2","3","4","5","6","7","8","9",
     "-","_",".","!","~","*","'","(",")"}

\* the escape of every other character of the model's alphabet
PctCode ==
    [c \in {"?", "&", "#", "=", "%", "+", " "} |->
        CASE c = "?" -> <<"%", "3", "F">>
          [] c = "&" -> <<"%", "2", "6">>
          [] c = "#" -> <<"%", "2", "3">>
          [] c = "=" -> <<"%", "3", "D">>
          [] c = "%" -> <<"%", "2", "5">>
          [] c = "+" -> <<"%", "2", "B">>
          [] c = " " -> <<"%", "2", "0">>]

EncodeChar(c) == IF c \in UriUnescaped THEN <<c>> ELSE PctCode[c]

RECURSIVE encodeURIComponent(_)
encodeURIComponent(s) ==
    IF s = <<>> THEN <<>>
    ELSE EncodeChar(Head(s)) \o encodeURIComponent(Tail(s))

----------------------------------------------------------------------------
(* String.prototype.indexOf, window.location.search, form decoding *)

OccursAt(s, pat, i) ==
    /\ i + Len(pat) - 1 <= Len(s)
    /\ SubSeq(s, i, i + Len(pat) - 1) = pat

RECURSIVE IndexFrom(_, _, _)
IndexFrom(s, pat, i) ==
    IF i + Len(pat) - 1 > Len(s) THEN -1
    ELSE IF OccursAt(s, pat, i) THEN i - 1
    ELSE IndexFrom(s, pat, i + 1)

\* s.indexOf(pat): the 0-based position of the first occurrence, or -1
IndexOf(s, pat) == IndexFrom(s, pat, 1)

\* location.search of a page whose address (after the origin) is href: the
\* query runs from the first "?" to the first "#"; a "?" after the "#" belongs
\* to the fragment, and an empty query gives the empty string
Search(href) ==
    LET h == IndexOf(href, <<"#">>)
        beforeHash == IF h = -1 THEN href ELSE SubSeq(href, 1, h)
        q == IndexOf(beforeHash, <<"?">>)
        query == IF q = -1 THEN <<>> ELSE SubSeq(beforeHash, q + 1, Len(beforeHash))
    IN  IF Len(query) <= 1 THEN <<>> ELSE query

RECURSIVE SplitOn(_, _)
SplitOn(s, sep) ==
    LET i == IndexOf(s, <<sep>>)
    IN  IF i = -1 THEN <<s>>
        ELSE <<SubSeq(s, 1, i)>> \o SplitOn(SubSeq(s, i + 2, Len(s)), sep)

\* the escapes of PctCode, read backwards
Escaped == {PctCode[c] : c \in DOMAIN PctCode}
Unescape == [t \in Escaped |-> CHOOSE c \in DOMAIN PctCode : PctCode[c] = t]

\* percent-decoding of a form field from position i on: "+" is a space, "%XY"
\* the character it escapes, anything else itself
RECURSIVE PctDecodeFrom(_, _)
PctDecodeFrom(s, i) ==
    IF i > Len(s) THEN <<>>
    ELSE IF s[i] = "+" THEN <<" ">> \o PctDecodeFrom(s, i + 1)
    ELSE IF s[i] = "%" /\ i + 2 <= Len(s) /\ <<s[i], s[i + 1], s[i + 2]>> \in Escaped
         THEN <<Unescape[<<s[i], s[i + 1], s[i + 2]>>]>> \o PctDecodeFrom(s, i + 3)
    ELSE <<s[i]>> \o PctDecodeFrom(s, i + 1)

PctDecode(s) == PctDecodeFrom(s, 1)

\* the name/value pairs of an application/x-www-form-urlencoded body
FormDecode(body) ==
    LET fields == SplitOn(body, "&")
        pair(f) == LET i == IndexOf(f, <<"=">>)
                   IN  IF i = -1 THEN <<PctDecode(f), <<>>>>
                       ELSE <<PctDecode(SubSeq(f, 1, i)),
                              PctDecode(SubSeq(f, i + 2, Len(f)))>>
    IN  [k \in 1..Len(fields) |-> pair(fields[k])]

\* JSON.stringify of an event: its own enumerable properties only
JSONstringify(e) ==
    <<"{", "\"isTrusted\"", ":", IF e.isTrusted THEN "true" ELSE "false", "}">>

----------------------------------------------------------------------------
(* Promise *)

Pending(kind) ==
    [kind |-> kind, state |-> "pending", value |-> "none",
     errName |-> "", errMessage |-> <<>>]

\* resolve() and reject() act on a pending promise only
Resolve(ps, p) ==
    IF ps[p].state = "pending"
    THEN [ps EXCEPT ![p].state = "resolved", ![p].value = "undefined"]
    ELSE ps

\* the message of the DOMException navigate rejects with
\* (DOMExceptionMessageBare: the faulty variant that drops the event)
DOMExceptionMessageBare(e) == <<ErrorPrefix>>
DOMExceptionMessage(e) == <<ErrorPrefix>> \o JSONstringify(e)

Reject(ps, p, message, name) ==
    IF ps[p].state = "pending"
    THEN [ps EXCEPT ![p].state = "rejected", ![p].value = "DOMException",
                    ![p].errName = name, ![p].errMessage = message]
    ELSE ps

----------------------------------------------------------------------------
(* Environment *)

\* the addresses the page may have been loaded at
PageLocations ==
    { <<>>,
      <<"?", "p">>,
      <<"?", "x", "=", "1">>,
      <<"?", "x", "=", "1", "&", "p">>,
      <<"?", "p", "x", "=", "1">> }

\* the identifier `url` is bound nowhere in the file: either no global of that
\* name exists, or some other script of the page defined one
GlobalBindings == {<<>>, << <<"a">> >>}

Statuses == {200, 500}

ErrorEvents == {[type |-> "error", isTrusted |-> t] : t \in BOOLEAN}

----------------------------------------------------------------------------
(* PhysicalWebDisplay *)

Calls == Len(displays) + Len(navs) + Len(terms) + Len(channels) + Len(monitorLog)

\* the argument of xhr.send in navigate (NavigateBodyRaw: the faulty variant
\* that leaves the url unescaped)
NavigateBodyRaw(url) == ActionStart \o url \o Marker
NavigateBody(url) == ActionStart \o encodeURIComponent(url \o Marker)

\* the argument of xhr.send in terminate; `url` is the global binding
TerminateBody(binding) == ActionStop \o encodeURIComponent(binding \o Marker)

\* the promise the onload / onerror handler of a navigate call settles: the
\* resolve and reject of the executor the handler was created in, p
\* (OnloadShared: the faulty variant where every handler holds the resolve of
\* the display's first navigate call)
OnloadShared(p) == IF navs = <<>> THEN p ELSE navs[1].promise
OnloadTarget(p) == p
OnerrorTarget(p) == p

\* onload resolves without looking at xhr.status (LoadResolvesIfOk: the
\* faulty variant that resolves on a 200 only)
LoadResolvesIfOk(status) == status = 200
LoadResolves(status) == TRUE

\* what the executor of createDataChannel does to its promise: it only logs
\* (DataChannelRejects: the faulty variant that fails at once)
DataChannelRejects(ps, p) == Reject(ps, p, <<"no data channel">>, "OperationError")
DataChannelExecutor(ps, p) == ps

Xhr(body, state, onload, onerror) ==
    [method |-> "POST", endpoint |-> Endpoint, contentType |-> FormContentType,
     body |-> body, state |-> state, status |-> 0,
     onload |-> onload, onerror |-> onerror, event |-> <<>>]

Navigate(d, url) ==
    /\ Calls < MaxCalls
    /\ d \in 1..Len(displays)
    /\ LET p == Len(promises) + 1
           x == Len(xhrs) + 1
       IN  /\ promises' = Append(promises, Pending("navigate"))
           /\ xhrs' = Append(xhrs, Xhr(NavigateBody(url), "sent",
                                       OnloadTarget(p), OnerrorTarget(p)))
           /\ navs' = Append(navs, [display |-> d, url |-> url, xhr |-> x, promise |-> p])
    /\ UNCHANGED <<rcvVars, globalUrl, displays, available, terms, channels>>

\* the load event of a request: any response, whatever its status
XhrLoad(x, status) ==
    /\ x \in 1..Len(xhrs)
    /\ xhrs[x].state = "sent"
    /\ xhrs' = [xhrs EXCEPT ![x].state = "load", ![x].status = status]
    /\ promises' = IF xhrs[x].onload # 0 /\ LoadResolves(status)
                   THEN Resolve(promises, xhrs[x].onload)
                   ELSE promises
    /\ UNCHANGED <<rcvVars, globalUrl, ctlVars, channels>>

\* the error event of a request: a failure at the network layer
XhrError(x, e) ==
    /\ x \in 1..Len(xhrs)
    /\ xhrs[x].state = "sent"
    /\ xhrs' = [xhrs EXCEPT ![x].state = "error", ![x].event = <<e>>]
    /\ promises' = IF xhrs[x].onerror = 0 THEN promises
                   ELSE Reject(promises, xhrs[x].onerror,
                               DOMExceptionMessage(e), "OperationError")
    /\ UNCHANGED <<rcvVars, globalUrl, ctlVars, channels>>

\* urls of the navigate calls on display d whose promise has resolved
Navigated(d) ==
    {navs[n].url : n \in {k \in 1..Len(navs) :
        navs[k].display = d /\ promises[navs[k].promise].state = "resolved"}}

Terminate(d) ==
    /\ Calls < MaxCalls
    /\ d \in 1..Len(displays)
    /\ LET x == Len(xhrs) + 1
       IN  /\ xhrs' = Append(xhrs,
                 IF globalUrl = <<>>
                 THEN Xhr(<<>>, "opened", 0, 0)      \* ReferenceError before send
                 ELSE Xhr(TerminateBody(globalUrl[1]), "sent", 0, 0))
           /\ terms' = Append(terms,
                 [display |-> d, xhr |-> x, navigated |-> Navigated(d),
                  raised |-> IF globalUrl = <<>> THEN "ReferenceError" ELSE ""])
    /\ UNCHANGED <<rcvVars, globalUrl, displays, available, navs, promises, channels>>

CreateDataChannel(owner, id) ==
    /\ Calls < MaxCalls
    /\ LET p == Len(promises) + 1
       IN  /\ promises' = DataChannelExecutor(Append(promises, Pending("channel")), p)
           /\ channels' = Append(channels, [owner |-> owner, id |-> id, promise |-> p])
    /\ UNCHANGED <<rcvVars, globalUrl, ctlVars, xhrs>>

DisplayCreateDataChannel(d) ==
    /\ d \in 1..Len(displays)
    /\ CreateDataChannel("display", d)

----------------------------------------------------------------------------
(* PhysicalWebRemoteController *)

\* the controllers handed to the callback, the only ones anyone holds
Controllers == {monitorLog[m].arg : m \in {k \in 1..Len(monitorLog) : monitorLog[k].calls > 0}}

ControllerCreateDataChannel(c) ==
    /\ c \in Controllers
    /\ CreateDataChannel("controller", c)

----------------------------------------------------------------------------
(* PhysicalWebPresentationMechanism *)

\* the value getAvailableDisplays resolves with, given the display it constructs
\* (DisplayListEmpty: the faulty variant that advertises nothing)
DisplayListEmpty(d) == <<>>
DisplayList(d) == <<d>>

GetAvailableDisplays ==
    /\ Calls < MaxCalls
    /\ displays' = Append(displays, [name |-> DisplayName])
    /\ available' = Append(available,
           [state |-> "resolved", value |-> DisplayList(Len(displays) + 1)])
    /\ UNCHANGED <<rcvVars, globalUrl, xhrs, promises, navs, terms, channels>>

\* the test of monitorIncomingControllers on the query string
IsReceivingContext(search) == IndexOf(search, Marker) # -1

\* the guard on the call of the callback (CallbackUnguarded: the faulty
\* variant that calls the hook without testing it)
CallbackUnguarded(cb) == TRUE
CallbackGuard(cb) == cb

MonitorIncomingControllers ==
    /\ Calls < MaxCalls
    /\ LET receiving == IsReceivingContext(Search(location))
           attempted == receiving /\ CallbackGuard(onincomingcontroller)
           called == attempted /\ onincomingcontroller
       IN  /\ stubs' = IF receiving THEN stubs + 1 ELSE stubs
           /\ monitorLog' = Append(monitorLog,
                 [href |-> location, registered |-> onincomingcontroller,
                  calls |-> IF called THEN 1 ELSE 0,
                  arg |-> IF called THEN stubs + 1 ELSE 0,
                  \* calling a hook that is not a function is a TypeError
                  raised |-> IF attempted /\ ~called THEN "TypeError" ELSE ""])
    /\ UNCHANGED <<location, onincomingcontroller, globalUrl, ctlVars, xhrs,
                   promises, channels>>

\* the framework assigns the onincomingcontroller hook
SetOnIncomingController ==
    /\ ~onincomingcontroller
    /\ onincomingcontroller' = TRUE
    /\ UNCHANGED <<location, stubs, monitorLog, globalUrl, ctlVars, xhrs,
                   promises, channels>>

\* the url field of a start request, as the backend decodes and broadcasts it
BroadcastUrl(body) == FormDecode(body)[2][2]

\* a receiver opens the page at a URL the beacon broadcasts, before the
\* framework starts monitoring
OpenBroadcastUrl(x) ==
    /\ x \in 1..Len(xhrs)
    /\ xhrs[x].state = "load"
    /\ xhrs[x].onload # 0
    /\ monitorLog = <<>>
    /\ ~onincomingcontroller
    /\ location' = BroadcastUrl(xhrs[x].body)
    /\ location' # location
    /\ UNCHANGED <<onincomingcontroller, stubs, monitorLog, globalUrl, ctlVars,
                   xhrs, promises, channels>>

----------------------------------------------------------------------------

Init ==
    /\ location \in PageLocations
    /\ globalUrl \in GlobalBindings
    /\ onincomingcontroller = FALSE
    /\ stubs = 0
    /\ monitorLog = <<>>
    /\ displays = <<>>
    /\ available = <<>>
    /\ xhrs = <<>>
    /\ promises = <<>>
    /\ navs = <<>>
    /\ terms = <<>>
    /\ channels = <<>>

Next ==
    \/ GetAvailableDisplays
    \/ \E d \in 1..MaxCalls, url \in URLs : Navigate(d, url)
    \/ \E x \in 1..MaxCalls, status \in Statuses : XhrLoad(x, status)
    \/ \E x \in 1..MaxCalls, e \in ErrorEvents : XhrError(x, e)
    \/ \E d \in 1..MaxCalls : Terminate(d)
    \/ \E d \in 1..MaxCalls : DisplayCreateDataChannel(d)
    \/ \E c \in 1..MaxCalls : ControllerCreateDataChannel(c)
    \/ MonitorIncomingControllers
    \/ SetOnIncomingController
    \/ \E x \in 1..MaxCalls : OpenBroadcastUrl(x)

Spec == Init /\ [][Next]_vars

----------------------------------------------------------------------------
(* Properties *)

Str_action == <<"a","c","t","i","o","n">>
Str_start == <<"s","t","a","r","t">>
Str_stop == <<"s","t","o","p">>
Str_url == <<"u","r","l">>

\* the decoded form of a request body: action=<action>, url=<url>
Decoded(action, url) == << <<Str_action, action>>, <<Str_url, url>> >>

Requested(x) == xhrs[x].state # "opened"   \* send() was called on the request

Contains(s, sub) == \E i \in 1..(Len(s) + 1) : OccursAt(s, sub, i)

NavXhr(n) == xhrs[navs[n].xhr]
NavPromise(n) == promises[navs[n].promise]

\* C1: a terminate() called on a display after a navigate(u) on it succeeded
\* issues one request whose body decodes to action=stop, url=u?p, and does
\* not raise.
C1_TerminateStopsNavigatedUrl ==
    \A t \in 1..Len(terms) :
        terms[t].navigated # {} =>
            /\ terms[t].raised = ""
            /\ Requested(terms[t].xhr)
            /\ xhrs[terms[t].xhr].method = "POST"
            /\ \E u \in terms[t].navigated :
                   FormDecode(xhrs[terms[t].xhr].body) = Decoded(Str_stop, u \o Marker)

\* C2: every navigate(u) call issues exactly one POST to the beacon endpoint,
\* whose body decodes to action=start, url=u?p; no request but those, one per
\* call, is a start request, whatever became of the requests.
C2_NavigateSendsOneStart ==
    /\ \A n \in 1..Len(navs) :
          /\ navs[n].xhr \in 1..Len(xhrs)
          /\ Requested(navs[n].xhr)
          /\ NavXhr(n).method = "POST"
          /\ NavXhr(n).endpoint = Endpoint
          /\ FormDecode(NavXhr(n).body) = Decoded(Str_start, navs[n].url \o Marker)
          /\ \A m \in 1..Len(navs) : m # n => navs[m].xhr # navs[n].xhr
    /\ \A x \in 1..Len(xhrs) :
          (\A n \in 1..Len(navs) : navs[n].xhr # x) =>
              ~(Requested(x) /\ FormDecode(xhrs[x].body)[1] = <<Str_action, Str_start>>)
    /\ Len(xhrs) = Len(navs) + Len(terms)

C2_Witness ==
    \E n \in 1..Len(navs), m \in 1..Len(navs) :
        /\ n # m
        /\ navs[n].url = <<"+", "%", "&", " ", "=">>
        /\ NavXhr(n).state = "error"
        /\ NavXhr(m).state = "load"

\* C3: when the error event of a navigate request has fired, the promise of
\* that call is rejected with an OperationError whose message contains the
\* serialised event; it is not resolved.
C3_ErrorRejects ==
    \A n \in 1..Len(navs) :
        NavXhr(n).state = "error" =>
            /\ NavPromise(n).state = "rejected"
            /\ NavPromise(n).errName = "OperationError"
            /\ Contains(NavPromise(n).errMessage, JSONstringify(NavXhr(n).event[1]))
            /\ Len(NavPromise(n).errMessage) > Len(JSONstringify(NavXhr(n).event[1]))

C3_Witness ==
    \E n \in 1..Len(navs) :
        /\ NavXhr(n).state = "error"
        /\ NavPromise(n).state = "rejected"
        /\ ~NavXhr(n).event[1].isTrusted

\* C4: when the load event of a navigate request has fired, whatever the
\* status, the promise of that call is resolved with no value; while neither
\* load nor error has fired, it is pending.
C4_LoadResolves ==
    \A n \in 1..Len(navs) :
        /\ NavXhr(n).state = "load" =>
              NavPromise(n).state = "resolved" /\ NavPromise(n).value = "undefined"
        /\ NavXhr(n).state = "sent" => NavPromise(n).state = "pending"

C4_Witness ==
    \E n \in 1..Len(navs) :
        /\ NavXhr(n).state = "load"
        /\ NavXhr(n).status = 500
        /\ NavPromise(n).state = "resolved"

\* C5: the promise of every createDataChannel() call, on a display or on a
\* controller, is pending in every state, whatever was called or completed
\* after it.
C5_DataChannelPending ==
    \A c \in 1..Len(channels) :
        /\ channels[c].promise \in 1..Len(promises)
        /\ promises[channels[c].promise].kind = "channel"
        /\ promises[channels[c].promise].state = "pending"

C5_Witness ==
    \E c \in 1..Len(channels), n \in 1..Len(navs) :
        /\ navs[n].promise > channels[c].promise
        /\ NavPromise(n).state # "pending"

\* the names of the parameters of a query string: the part of each
\* "&"-separated field before its "="
ParamNames(search) ==
    IF search = <<>> THEN {}
    ELSE LET fields == SplitOn(Tail(search), "&")
             name(f) == LET i == IndexOf(f, <<"=">>)
                        IN  IF i = -1 THEN f ELSE SubSeq(f, 1, i)
         IN  {name(fields[k]) : k \in 1..Len(fields)}

\* C6: with a callback registered, monitorIncomingControllers() calls it
\* exactly when p is the name of a parameter of the query string, first or
\* later, and passes it a newly constructed controller.
C6_CallbackIffParamP ==
    \A m \in 1..Len(monitorLog) :
        monitorLog[m].registered =>
            /\ monitorLog[m].calls = 1 <=> <<"p">> \in ParamNames(Search(monitorLog[m].href))
            /\ monitorLog[m].calls = 1 => monitorLog[m].arg \in 1..stubs

\* C7: an invocation with search "?p" and a callback registered makes exactly
\* one call of the callback, passing a controller no other invocation passed;
\* an invocation with search "?x=1" makes none; an invocation with no callback
\* registered makes none and raises nothing.
C7_OneCallPerInvocation ==
    \A m \in 1..Len(monitorLog) :
        LET e == monitorLog[m]
        IN  /\ (Search(e.href) = <<"?", "p">> /\ e.registered) =>
                  /\ e.calls = 1
                  /\ e.arg \in 1..stubs
                  /\ \A k \in 1..Len(monitorLog) : k # m => monitorLog[k].arg # e.arg
            /\ Search(e.href) = <<"?", "x", "=", "1">> => e.calls = 0
            /\ ~e.registered => e.calls = 0 /\ e.raised = ""

C7_Witness ==
    /\ Len(monitorLog) = 3
    /\ Search(monitorLog[1].href) = <<"?", "p">>
    /\ ~monitorLog[1].registered
    /\ \A m \in 2..3 : monitorLog[m].registered /\ monitorLog[m].calls = 1

\* C8: every getAvailableDisplays() promise is resolved with a sequence of
\* exactly one display, named by the same non-empty constant, and no two calls
\* give the same display.
C8_OneFreshDisplay ==
    \A a \in 1..Len(available) :
        /\ available[a].state = "resolved"
        /\ Len(available[a].value) = 1
        /\ available[a].value[1] \in 1..Len(displays)
        /\ displays[available[a].value[1]].name = DisplayName
        /\ DisplayName # ""
        /\ \A b \in 1..Len(available) : b # a => available[b].value # available[a].value

C8_Witness ==
    /\ Len(available) = 2
    /\ \E n \in 1..Len(navs) : NavPromise(n).state = "rejected"

\* C9: a monitorIncomingControllers() run, with a callback registered, on the
\* page opened at the url u?p that a navigate(u) broadcast calls the callback.
C9_BroadcastUrlRecognised ==
    \A m \in 1..Len(monitorLog) :
        (/\ monitorLog[m].registered
         /\ \E n \in 1..Len(navs) : monitorLog[m].href = navs[n].url \o Marker)
        => monitorLog[m].calls = 1

\* C10: the navigate calls have each their own request and their own promise;
\* a call's promise is pending, resolved or rejected as its own request is in
\* flight, loaded or failed; and a settled promise never changes.
C10_OwnRequest ==
    \A n \in 1..Len(navs) :
        /\ \A m \in 1..Len(navs) : m # n =>
              navs[m].xhr # navs[n].xhr /\ navs[m].promise # navs[n].promise
        /\ NavPromise(n).kind = "navigate"
        /\ NavPromise(n).state =
              CASE NavXhr(n).state = "load" -> "resolved"
                [] NavXhr(n).state = "error" -> "rejected"
                [] OTHER -> "pending"

C10_SettledStays ==
    \A p \in 1..Len(promises) :
        promises[p].state # "pending" => promises'[p] = promises[p]

C10_OverlappingNavigates == [](C10_OwnRequest) /\ [][C10_SettledStays]_vars

C10_Witness ==
    \E n \in 1..Len(navs), m \in 1..Len(navs) :
        /\ n < m
        /\ navs[n].display = navs[m].display
        /\ NavXhr(n).state = "sent"
        /\ NavXhr(m).state = "load"
        /\ NavPromise(n).state = "pending"
        /\ NavPromise(m).state = "resolved"

====
